---------------------------- MODULE Spec2Model ----------------------------
(***************************************************************************)
(* A model of sumtube's content-acquisition layer, the YouTubeClient class *)
(* of src/sumtube/youtube_client.py: extract_video_id, get_transcript,     *)
(* fetch_video_snippet, get_thumbnail_url, download_thumbnail, chunk_text. *)
(* Strings are sequences of one-character strings.  Each method has its    *)
(* own specification (SpecChunk, SpecExtract, SpecTranscript, SpecMeta);   *)
(* the variables of the other methods stay idle under it.                  *)
(***************************************************************************)
EXTENDS Integers, Sequences, FiniteSets, TLC

VARIABLES
    \* chunk_text
    file_text,      \* the content of the file at file_path
    chunk_size,     \* argument
    overlap_size,   \* argument
    pcChunk,        \* "call", "open", "loop", "done", "raised"
    fileOpened,     \* whether open(file_path).read() has run
    text,           \* local: the text read
    start,          \* local: the cursor
    chunks,         \* local: the list returned
    starts,         \* history: the cursor at which each chunk was cut
    \* extract_video_id
    youtube_url,    \* argument
    urlPieces,      \* history: the number of pieces youtube_url was put together from
    pcExtract,      \* "input", "done"
    extractResult,  \* [kind: "return" | "ValueError", value: the identifier]
    \* get_transcript
    segments,       \* the texts of the entries the transcript service holds
    output_file,    \* argument: "None", or a path
    pcT,            \* "call", "join", "strip", "save", "except", "done"
    transcript_text,\* local
    entryIdx,       \* local: the entry the for loop stands at
    fetchRaised,    \* history: the service call raised
    writeFailed,    \* history: opening or writing output_file raised
    fileWritten,    \* whether output_file was opened for writing
    fileContent,    \* what output_file then holds
    transcriptResult, \* [kind: "return" | "raise", none: BOOLEAN, value: text]
    \* fetch_video_snippet, get_thumbnail_url, download_thumbnail
    op,             \* the method called
    pcM,            \* "call", "check", "download", "decode", "save", "except", "done"
    resp,           \* the metadata API's answer to requests.get(url)
    metaRequests,   \* requests sent to the metadata API
    imageRequests,  \* requests sent to the thumbnail URL
    thumb_url,      \* local of download_thumbnail
    imageFailure,   \* history: "none", or the step that raised
    imageSaved,     \* whether img.save(save_path) has written the file
    callResult      \* [kind: "return" | "raise", exc, value, snippet]

chunkVars == <<file_text, chunk_size, overlap_size, pcChunk, fileOpened,
               text, start, chunks, starts>>

extractVars == <<youtube_url, urlPieces, pcExtract, extractResult>>

transcriptVars == <<segments, output_file, pcT, transcript_text, entryIdx,
                    fetchRaised, writeFailed, fileWritten, fileContent,
                    transcriptResult>>

metaVars == <<op, pcM, resp, metaRequests, imageRequests, thumb_url,
              imageFailure, imageSaved, callResult>>

vars == <<chunkVars, extractVars, transcriptVars, metaVars>>

Min(a, b) == IF a < b THEN a ELSE b
Max(a, b) == IF a > b THEN a ELSE b

\* All sequences over S of length at most n.
SeqsUpTo(S, n) == UNION {[1..k -> S] : k \in 0..n}

-----------------------------------------------------------------------------
(* chunk_text                                                              *)

MaxTextLen == 4
MaxSize == 4

TextAlphabet == {"a", "b"}
Sizes == (0 - 1)..MaxSize

\* Python's clamping of a slice index into 0..n.
PyIndex(i, n) == IF i < 0 THEN Max(i + n, 0) ELSE Min(i, n)

\* s[a:b]
PySlice(s, a, b) ==
    LET lo == PyIndex(a, Len(s))
        hi == PyIndex(b, Len(s))
    IN  SubSeq(s, lo + 1, hi)

\* A precondition that lets overlap_size = chunk_size through.
InvalidOverlapStrict(c, o) == o > c

\* line 102: if overlap_size >= chunk_size
InvalidOverlap(c, o) == o >= c

\* A loop that also runs with the cursor at the end of the text.
LoopCondInclusive(s, t) == s <= Len(t)

\* line 107: while start < len(text)
LoopCond(s, t) == s < Len(t)

\* A window one character short.
ChunkEndShort(s, c) == s + c - 1

\* line 108: end = start + chunk_size
ChunkEnd(s, c) == s + c

\* A cursor that forgets the overlap.
NextStartNoOverlap(e, o) == e

\* line 110: start = end - overlap_size
NextStart(e, o) == e - o

InitChunk ==
    /\ file_text \in SeqsUpTo(TextAlphabet, MaxTextLen)
    /\ chunk_size \in Sizes
    /\ overlap_size \in Sizes
    /\ pcChunk = "call"
    /\ fileOpened = FALSE
    /\ text = <<>>
    /\ start = 0
    /\ chunks = <<>>
    /\ starts = <<>>

\* lines 102-104: the precondition, then chunks = []
ChunkCheck ==
    /\ pcChunk = "call"
    /\ pcChunk' = IF InvalidOverlap(chunk_size, overlap_size) THEN "raised" ELSE "open"
    /\ UNCHANGED <<file_text, chunk_size, overlap_size, fileOpened, text, start,
                   chunks, starts>>
    /\ UNCHANGED <<extractVars, transcriptVars, metaVars>>

\* lines 105-106: text = open(file_path).read(); start = 0
ChunkOpen ==
    /\ pcChunk = "open"
    /\ fileOpened' = TRUE
    /\ text' = file_text
    /\ start' = 0
    /\ pcChunk' = "loop"
    /\ UNCHANGED <<file_text, chunk_size, overlap_size, chunks, starts>>
    /\ UNCHANGED <<extractVars, transcriptVars, metaVars>>

\* lines 107-111: one turn of the loop, or the return
ChunkLoop ==
    /\ pcChunk = "loop"
    /\ IF LoopCond(start, text)
       THEN LET end == ChunkEnd(start, chunk_size)
            IN  /\ chunks' = Append(chunks, PySlice(text, start, end))
                /\ starts' = Append(starts, start)
                /\ start' = NextStart(end, overlap_size)
                /\ pcChunk' = "loop"
       ELSE /\ pcChunk' = "done"
            /\ UNCHANGED <<chunks, starts, start>>
    /\ UNCHANGED <<file_text, chunk_size, overlap_size, fileOpened, text>>
    /\ UNCHANGED <<extractVars, transcriptVars, metaVars>>

IdleChunk ==
    /\ file_text = <<>>
    /\ chunk_size = 0
    /\ overlap_size = 0
    /\ pcChunk = "idle"
    /\ fileOpened = FALSE
    /\ text = <<>>
    /\ start = 0
    /\ chunks = <<>>
    /\ starts = <<>>

NextChunk == ChunkCheck \/ ChunkOpen \/ ChunkLoop

-----------------------------------------------------------------------------
(* extract_video_id                                                        *)

MaxPieces == 5

\* The unescaped "." of the pattern: any character but a newline.
Dot == "ANY"

\* lines 22-26: the alternatives of the non-capturing group, in order.
Pattern == <<
    <<"v", "=">>,
    <<"/", "v", "i", "d", "e", "o", "s", "/">>,
    <<"y", "o", "u", "t", "u", Dot, "b", "e", "/">>,
    <<"/", "v", "/">>,
    <<"/", "e", "/">>,
    <<"/", "w", "a", "t", "c", "h", "?", "v", "=">>,
    <<"&", "v", "=">>,
    <<"/", "e", "m", "b", "e", "d", "/">>,
    <<"%", "2", "F", "v", "i", "d", "e", "o", "s", "%", "2", "F">>,
    <<"e", "m", "b", "e", "d", "%", "2", "F">>,
    <<"y", "o", "u", "t", "u", Dot, "b", "e", "%", "2", "F">>,
    <<"%", "2", "F", "v", "%", "2", "F">>,
    <<"%", "2", "F", "e", "%", "2", "F">>,
    <<"y", "o", "u", "t", "u", "b", "e", Dot, "c", "o", "m", "/", "e",
      "m", "b", "e", "d", "/">>,
    <<"y", "o", "u", "t", "u", "b", "e", Dot, "c", "o", "m", "/", "v", "/">>,
    <<"y", "o", "u", "t", "u", "b", "e", Dot, "c", "o", "m", "/", "w",
      "a", "t", "c", "h", "?", "v", "=">>
>>

\* lines 25: the class [^#\&\?\n\/] excludes these.
Delimiters == {"#", "&", "?", "\n", "/"}

AtomMatches(atom, ch) == IF atom = Dot THEN ch # "\n" ELSE atom = ch

\* Alternative alt matches the characters of url from position pos on.
MatchesAt(url, pos, alt) ==
    /\ pos + Len(alt) - 1 <= Len(url)
    /\ \A k \in 1..Len(alt) : AtomMatches(alt[k], url[pos + k - 1])

\* line 25: the "+" of ([^#\&\?\n\/]+), at least one character
GroupNonEmpty(from, to) == to > from

\* line 25: the greedy run of non-delimiters from position i; one past its end.
RECURSIVE GroupEnd(_, _)
GroupEnd(url, i) ==
    IF i <= Len(url) /\ url[i] \notin Delimiters THEN GroupEnd(url, i + 1) ELSE i

NoMatch == [matched |-> FALSE, pos |-> 0, alt |-> 0, group1 |-> <<>>]

\* The match of alternative k at position pos, if there is one.
MatchAlt(url, pos, k) ==
    LET from == pos + Len(Pattern[k])
        to   == GroupEnd(url, from)
    IN  IF MatchesAt(url, pos, Pattern[k]) /\ GroupNonEmpty(from, to)
        THEN [matched |-> TRUE, pos |-> pos, alt |-> k,
              group1 |-> SubSeq(url, from, to - 1)]
        ELSE NoMatch

\* At one position the alternatives are tried in the pattern's order.
RECURSIVE TryAlternatives(_, _, _)
TryAlternatives(url, pos, k) ==
    IF k > Len(Pattern) THEN NoMatch
    ELSE LET m == MatchAlt(url, pos, k)
         IN  IF m.matched THEN m ELSE TryAlternatives(url, pos, k + 1)

\* The positions are tried from left to right.
RECURSIVE ScanFrom(_, _)
ScanFrom(url, pos) ==
    IF pos > Len(url) THEN NoMatch
    ELSE LET m == TryAlternatives(url, pos, 1)
         IN  IF m.matched THEN m ELSE ScanFrom(url, pos + 1)

\* A search that tries each alternative over the whole string before the next.
RECURSIVE ScanAlt(_, _, _)
ScanAlt(url, pos, k) ==
    IF pos > Len(url) THEN NoMatch
    ELSE LET m == MatchAlt(url, pos, k)
         IN  IF m.matched THEN m ELSE ScanAlt(url, pos + 1, k)

RECURSIVE SearchByAlternative(_, _)
SearchByAlternative(url, k) ==
    IF k > Len(Pattern) THEN NoMatch
    ELSE LET m == ScanAlt(url, 1, k)
         IN  IF m.matched THEN m ELSE SearchByAlternative(url, k + 1)

re_search_by_alternative(url) == SearchByAlternative(url, 1)

\* line 27: re.search(pattern, youtube_url)
re_search(url) == ScanFrom(url, 1)

\* lines 27-30
extract_video_id(url) ==
    LET match == re_search(url)
    IN  IF ~match.matched
        THEN [kind |-> "ValueError", value |-> <<>>]
        ELSE [kind |-> "return", value |-> match.group1]

\* The strings the URLs are put together from.
UrlPieces == {
    <<"v", "=">>,
    <<"/", "e", "m", "b", "e", "d", "/">>,
    <<"y", "o", "u", "t", "u", "-", "b", "e", "/">>,
    <<"a">>, <<"b">>, <<"?">> }

InitExtract ==
    /\ youtube_url = <<>>
    /\ urlPieces = 0
    /\ pcExtract = "input"
    /\ extractResult = [kind |-> "none", value |-> <<>>]

\* The caller's URL, one piece longer.
UrlAppend ==
    /\ pcExtract = "input"
    /\ urlPieces < MaxPieces
    /\ urlPieces' = urlPieces + 1
    /\ \E piece \in UrlPieces : youtube_url' = youtube_url \o piece
    /\ UNCHANGED <<pcExtract, extractResult>>
    /\ UNCHANGED <<chunkVars, transcriptVars, metaVars>>

\* lines 21-30: the call
ExtractVideoId ==
    /\ pcExtract = "input"
    /\ extractResult' = extract_video_id(youtube_url)
    /\ pcExtract' = "done"
    /\ UNCHANGED <<youtube_url, urlPieces>>
    /\ UNCHANGED <<chunkVars, transcriptVars, metaVars>>

IdleExtract ==
    /\ youtube_url = <<>>
    /\ urlPieces = 0
    /\ pcExtract = "idle"
    /\ extractResult = [kind |-> "none", value |-> <<>>]

NextExtract == UrlAppend \/ ExtractVideoId

-----------------------------------------------------------------------------
(* get_transcript                                                          *)

MaxSegments == 2
MaxSegmentLen == 2

SegmentAlphabet == {"a", " "}
SegmentTexts == SeqsUpTo(SegmentAlphabet, MaxSegmentLen)
OutputFiles == {"None", "transcript.txt"}

Whitespace == {" ", "\t", "\n"}

RECURSIVE LStrip(_)
LStrip(s) == IF s # <<>> /\ Head(s) \in Whitespace THEN LStrip(Tail(s)) ELSE s

RECURSIVE RStrip(_)
RStrip(s) ==
    IF s # <<>> /\ s[Len(s)] \in Whitespace THEN RStrip(SubSeq(s, 1, Len(s) - 1)) ELSE s

\* line 46: transcript_text.strip()
PyStrip(s) == RStrip(LStrip(s))

\* A handler that lets the error out.
OnTranscriptErrorReraise == [kind |-> "raise", none |-> FALSE, value |-> <<>>]

\* lines 55-57: except Exception: print, return None
OnTranscriptError == [kind |-> "return", none |-> TRUE, value |-> <<>>]

NoTranscriptResult == [kind |-> "pending", none |-> FALSE, value |-> <<>>]

InitTranscript ==
    /\ segments \in SeqsUpTo(SegmentTexts, MaxSegments)
    /\ output_file \in OutputFiles
    /\ pcT = "call"
    /\ transcript_text = <<>>
    /\ entryIdx = 1
    /\ fetchRaised = FALSE
    /\ writeFailed = FALSE
    /\ fileWritten = FALSE
    /\ fileContent = <<>>
    /\ transcriptResult = NoTranscriptResult

IdleTranscript ==
    /\ segments = <<>>
    /\ output_file = "None"
    /\ pcT = "idle"
    /\ transcript_text = <<>>
    /\ entryIdx = 1
    /\ fetchRaised = FALSE
    /\ writeFailed = FALSE
    /\ fileWritten = FALSE
    /\ fileContent = <<>>
    /\ transcriptResult = NoTranscriptResult

\* lines 36-41: the service call, which either raises or hands the entries
GT_Fetch ==
    /\ pcT = "call"
    /\ \E raises \in BOOLEAN :
          /\ fetchRaised' = raises
          /\ IF raises
             THEN pcT' = "except" /\ UNCHANGED <<transcript_text, entryIdx>>
             ELSE pcT' = "join" /\ transcript_text' = <<>> /\ entryIdx' = 1
    /\ UNCHANGED <<segments, output_file, writeFailed, fileWritten, fileContent,
                   transcriptResult>>
    /\ UNCHANGED <<chunkVars, extractVars, metaVars>>

\* lines 42-43: for entry in transcript_data: transcript_text += entry['text'] + " "
GT_Join ==
    /\ pcT = "join"
    /\ IF entryIdx <= Len(segments)
       THEN /\ transcript_text' = transcript_text \o segments[entryIdx] \o <<" ">>
            /\ entryIdx' = entryIdx + 1
            /\ pcT' = "join"
       ELSE /\ pcT' = "strip"
            /\ UNCHANGED <<transcript_text, entryIdx>>
    /\ UNCHANGED <<segments, output_file, fetchRaised, writeFailed, fileWritten,
                   fileContent, transcriptResult>>
    /\ UNCHANGED <<chunkVars, extractVars, metaVars>>

\* line 46
GT_Strip ==
    /\ pcT = "strip"
    /\ transcript_text' = PyStrip(transcript_text)
    /\ pcT' = "save"
    /\ UNCHANGED <<segments, output_file, entryIdx, fetchRaised, writeFailed,
                   fileWritten, fileContent, transcriptResult>>
    /\ UNCHANGED <<chunkVars, extractVars, metaVars>>

\* lines 49-53: the optional write, then the return.  open() may raise (the
\* file is left alone), write() may raise (the file is left cut short).
GT_Save ==
    /\ pcT = "save"
    /\ IF output_file # "None"
       THEN \E outcome \in {"ok", "open raises", "write raises"} :
              /\ writeFailed' = (outcome # "ok")
              /\ fileWritten' = (outcome # "open raises")
              /\ fileContent' = IF outcome = "ok" THEN transcript_text ELSE <<>>
              /\ pcT' = IF outcome = "ok" THEN "done" ELSE "except"
              /\ transcriptResult' =
                    IF outcome = "ok"
                    THEN [kind |-> "return", none |-> FALSE, value |-> transcript_text]
                    ELSE transcriptResult
       ELSE /\ pcT' = "done"
            /\ transcriptResult' =
                  [kind |-> "return", none |-> FALSE, value |-> transcript_text]
            /\ UNCHANGED <<writeFailed, fileWritten, fileContent>>
    /\ UNCHANGED <<segments, output_file, transcript_text, entryIdx, fetchRaised>>
    /\ UNCHANGED <<chunkVars, extractVars, metaVars>>

\* lines 55-57
GT_Except ==
    /\ pcT = "except"
    /\ transcriptResult' = OnTranscriptError
    /\ pcT' = "done"
    /\ UNCHANGED <<segments, output_file, transcript_text, entryIdx, fetchRaised,
                   writeFailed, fileWritten, fileContent>>
    /\ UNCHANGED <<chunkVars, extractVars, metaVars>>

NextTranscript == GT_Fetch \/ GT_Join \/ GT_Strip \/ GT_Save \/ GT_Except

-----------------------------------------------------------------------------
(* fetch_video_snippet, get_thumbnail_url, download_thumbnail              *)

MaxItems == 2

\* A Python dict is a function; d.get(k, default):
EmptyDict == [k \in {} |-> k]
DictGet(d, k, default) == IF k \in DOMAIN d THEN d[k] ELSE default

\* Snippets the API may send: without thumbnails, without a medium
\* thumbnail, with a medium thumbnail that has no url or an empty one, and
\* with a medium thumbnail URL.
Snippets == {
    [title |-> "t"],
    [title |-> "t", thumbnails |-> [default |-> [url |-> "http://d"]]],
    [title |-> "t", thumbnails |-> [medium |-> [width |-> "320"]]],
    [title |-> "t", thumbnails |-> [medium |-> [url |-> ""]]],
    [title |-> "t", thumbnails |-> [medium |-> [url |-> "http://m"]]] }

Items == {[snippet |-> sn] : sn \in Snippets}

Statuses == {200, 403, 404, 500}

NoResponse ==
    [conn |-> FALSE, status |-> 0, json |-> FALSE, hasItems |-> FALSE, items |-> <<>>]

\* What requests.get(url) may come back with: no connection (it raises), or
\* a status and a body that is no JSON, a JSON object without "items", or
\* one with a list of items.
Responses ==
    {NoResponse}
    \cup {[conn |-> TRUE, status |-> st, json |-> FALSE, hasItems |-> FALSE,
           items |-> <<>>] : st \in Statuses}
    \cup {[conn |-> TRUE, status |-> st, json |-> TRUE, hasItems |-> FALSE,
           items |-> <<>>] : st \in Statuses}
    \cup {[conn |-> TRUE, status |-> r[1], json |-> TRUE, hasItems |-> TRUE,
           items |-> r[2]] : r \in Statuses \X SeqsUpTo(Items, MaxItems)}

\* A status check that only minds server errors.
RaisesForStatus5xx(status) == 500 <= status /\ status < 600

\* lines 68, 92: resp.raise_for_status() raises HTTPError on 4xx and 5xx
RaisesForStatus(status) == 400 <= status /\ status < 600

\* line 71: not data.get("items")
NoItems(r) == ~r.hasItems \/ r.items = <<>>

Raise(exc) == [kind |-> "raise", exc |-> exc, value |-> "None", snippet |-> <<>>]
ReturnSnippet(sn) ==
    [kind |-> "return", exc |-> "", value |-> "snippet", snippet |-> <<sn>>]
ReturnValue(v) == [kind |-> "return", exc |-> "", value |-> v, snippet |-> <<>>]
NoCallResult == [kind |-> "pending", exc |-> "", value |-> "None", snippet |-> <<>>]

\* lines 59-74, on the answer r to its request
fetch_video_snippet(r) ==
    IF ~r.conn THEN Raise("ConnectionError")
    ELSE IF RaisesForStatus(r.status) THEN Raise("HTTPError")
    ELSE IF ~r.json THEN Raise("JSONDecodeError")
    ELSE IF NoItems(r) THEN Raise("ValueError")
    ELSE ReturnSnippet(r.items[1].snippet)

\* lines 80-83, on the answer r to the request of its snippet fetch
get_thumbnail_url(r) ==
    LET fetched == fetch_video_snippet(r)
    IN  IF fetched.kind = "raise" THEN fetched
        ELSE LET snippet == fetched.snippet[1]
                 medium_thumb ==
                     DictGet(DictGet(snippet, "thumbnails", EmptyDict), "medium", EmptyDict)
             IN  ReturnValue(DictGet(medium_thumb, "url", "None"))

\* line 87: not thumb_url
Falsy(v) == v \in {"None", ""}

\* The snippet fetch moved inside the try: its error is swallowed.
OnResolveErrorSwallowed(raised) == ReturnValue("None")

\* line 86 stands before the try: an error of the snippet fetch leaves
\* download_thumbnail as it is
OnResolveError(raised) == raised

\* A handler that lets the error out.
OnImageErrorReraise == Raise("Exception")

\* lines 96-98: except Exception: print, return None
OnImageError == ReturnValue("None")

SavePath == "thumb.jpg"

Ops == {"fetch_video_snippet", "get_thumbnail_url", "download_thumbnail"}

InitMeta ==
    /\ op \in Ops
    /\ pcM = "call"
    /\ resp = NoResponse
    /\ metaRequests = 0
    /\ imageRequests = 0
    /\ thumb_url = "None"
    /\ imageFailure = "none"
    /\ imageSaved = FALSE
    /\ callResult = NoCallResult

IdleMeta ==
    /\ op = "none"
    /\ pcM = "idle"
    /\ resp = NoResponse
    /\ metaRequests = 0
    /\ imageRequests = 0
    /\ thumb_url = "None"
    /\ imageFailure = "none"
    /\ imageSaved = FALSE
    /\ callResult = NoCallResult

\* lines 59-74
FetchVideoSnippet ==
    /\ op = "fetch_video_snippet" /\ pcM = "call"
    /\ \E r \in Responses :
          /\ resp' = r
          /\ callResult' = fetch_video_snippet(r)
    /\ metaRequests' = metaRequests + 1
    /\ pcM' = "done"
    /\ UNCHANGED <<op, imageRequests, thumb_url, imageFailure, imageSaved>>
    /\ UNCHANGED <<chunkVars, extractVars, transcriptVars>>

\* lines 80-83
GetThumbnailUrl ==
    /\ op = "get_thumbnail_url" /\ pcM = "call"
    /\ \E r \in Responses :
          /\ resp' = r
          /\ callResult' = get_thumbnail_url(r)
    /\ metaRequests' = metaRequests + 1
    /\ pcM' = "done"
    /\ UNCHANGED <<op, imageRequests, thumb_url, imageFailure, imageSaved>>
    /\ UNCHANGED <<chunkVars, extractVars, transcriptVars>>

\* line 86: thumb_url = self.get_thumbnail_url(video_id)
DT_Resolve ==
    /\ op = "download_thumbnail" /\ pcM = "call"
    /\ \E r \in Responses :
          LET got == get_thumbnail_url(r)
          IN  /\ resp' = r
              /\ IF got.kind = "raise"
                 THEN /\ callResult' = OnResolveError(got)
                      /\ pcM' = "done"
                      /\ UNCHANGED thumb_url
                 ELSE /\ thumb_url' = got.value
                      /\ pcM' = "check"
                      /\ UNCHANGED callResult
    /\ metaRequests' = metaRequests + 1
    /\ UNCHANGED <<op, imageRequests, imageFailure, imageSaved>>
    /\ UNCHANGED <<chunkVars, extractVars, transcriptVars>>

\* lines 87-88: if not thumb_url: return None
DT_Check ==
    /\ pcM = "check"
    /\ IF Falsy(thumb_url)
       THEN /\ callResult' = ReturnValue("None")
            /\ pcM' = "done"
       ELSE /\ pcM' = "download"
            /\ UNCHANGED callResult
    /\ UNCHANGED <<op, resp, metaRequests, imageRequests, thumb_url, imageFailure,
                   imageSaved>>
    /\ UNCHANGED <<chunkVars, extractVars, transcriptVars>>

\* lines 91-92: requests.get(thumb_url) raises, or answers with a status
DT_Download ==
    /\ pcM = "download"
    /\ imageRequests' = imageRequests + 1
    /\ \E conn \in BOOLEAN, st \in Statuses :
          IF ~conn \/ RaisesForStatus(st)
          THEN imageFailure' = "download" /\ pcM' = "except"
          ELSE imageFailure' = imageFailure /\ pcM' = "decode"
    /\ UNCHANGED <<op, resp, metaRequests, thumb_url, imageSaved, callResult>>
    /\ UNCHANGED <<chunkVars, extractVars, transcriptVars>>

\* line 93: Image.open(BytesIO(resp.content)) decodes the bytes, or raises
DT_Decode ==
    /\ pcM = "decode"
    /\ \E decodes \in BOOLEAN :
          IF decodes
          THEN imageFailure' = imageFailure /\ pcM' = "save"
          ELSE imageFailure' = "decode" /\ pcM' = "except"
    /\ UNCHANGED <<op, resp, metaRequests, imageRequests, thumb_url, imageSaved,
                   callResult>>
    /\ UNCHANGED <<chunkVars, extractVars, transcriptVars>>

\* lines 94-95: img.save(save_path) writes the file, or raises; return save_path
DT_Save ==
    /\ pcM = "save"
    /\ \E saves \in BOOLEAN :
          IF saves
          THEN /\ imageSaved' = TRUE
               /\ callResult' = ReturnValue(SavePath)
               /\ pcM' = "done"
               /\ UNCHANGED imageFailure
          ELSE /\ imageFailure' = "save"
               /\ pcM' = "except"
               /\ UNCHANGED <<imageSaved, callResult>>
    /\ UNCHANGED <<op, resp, metaRequests, imageRequests, thumb_url>>
    /\ UNCHANGED <<chunkVars, extractVars, transcriptVars>>

\* lines 96-98
DT_Except ==
    /\ pcM = "except"
    /\ callResult' = OnImageError
    /\ pcM' = "done"
    /\ UNCHANGED <<op, resp, metaRequests, imageRequests, thumb_url, imageFailure,
                   imageSaved>>
    /\ UNCHANGED <<chunkVars, extractVars, transcriptVars>>

NextMeta ==
    \/ FetchVideoSnippet \/ GetThumbnailUrl
    \/ DT_Resolve \/ DT_Check \/ DT_Download \/ DT_Decode \/ DT_Save \/ DT_Except

-----------------------------------------------------------------------------
(* The specifications, one per method.                                     *)

InitOfChunk == InitChunk /\ IdleExtract /\ IdleTranscript /\ IdleMeta
InitOfExtract == IdleChunk /\ InitExtract /\ IdleTranscript /\ IdleMeta
InitOfTranscript == IdleChunk /\ IdleExtract /\ InitTranscript /\ IdleMeta
InitOfMeta == IdleChunk /\ IdleExtract /\ IdleTranscript /\ InitMeta

\* A call runs on: its steps are taken as long as one is enabled.
SpecChunk == InitOfChunk /\ [][NextChunk]_vars /\ WF_vars(NextChunk)

SpecExtract == InitOfExtract /\ [][NextExtract]_vars

SpecTranscript == InitOfTranscript /\ [][NextTranscript]_vars

SpecMeta == InitOfMeta /\ [][NextMeta]_vars

-----------------------------------------------------------------------------
(* chunk_text: the claims                                                  *)

ValidChunkCfg == 0 <= overlap_size /\ overlap_size < chunk_size
Stride == chunk_size - overlap_size
CeilDiv(a, b) == (a + b - 1) \div b

\* The number of character positions of the text that chunks i and i+1 share.
Shared(i) ==
    LET lo == Max(starts[i], starts[i + 1])
        hi == Min(starts[i] + Len(chunks[i]), starts[i + 1] + Len(chunks[i + 1]))
    IN  Max(0, hi - lo)

\* C1: with 0 <= O < C, chunk number i (from 0) is cut at cursor i*(C-O) and
\* is the substring of T from i*(C-O) to min(i*(C-O)+C, len(T)); this holds of
\* the chunks emitted so far at every turn of the loop, the cursor standing
\* at (number of chunks)*(C-O); and on return every character position of T
\* lies inside some chunk.
C1_ChunksAreStridedSubstrings ==
    (ValidChunkCfg /\ pcChunk \in {"loop", "done"}) =>
        /\ Len(starts) = Len(chunks)
        /\ start = Len(chunks) * Stride
        /\ \A i \in 1..Len(chunks) :
              /\ starts[i] = (i - 1) * Stride
              /\ chunks[i] = SubSeq(file_text, (i - 1) * Stride + 1,
                                    Min((i - 1) * Stride + chunk_size, Len(file_text)))
        /\ pcChunk = "done" =>
              \A p \in 1..Len(file_text) :
                  \E i \in 1..Len(chunks) :
                      starts[i] < p /\ p <= starts[i] + Len(chunks[i])

C1_Witness ==
    /\ pcChunk = "done"
    /\ ValidChunkCfg
    /\ overlap_size >= 1
    /\ Len(chunks) >= 3
    /\ Len(chunks[Len(chunks)]) < chunk_size

\* C2 as stated: with 0 <= O < C, every pair of consecutive chunks whose
\* second member is not the final chunk shares exactly O positions, and only
\* the final chunk is shorter than chunkSize.
C2_OnlyFinalChunkShort ==
    (ValidChunkCfg /\ pcChunk = "done") =>
        \A i \in 1..(Len(chunks) - 1) :
            /\ Len(chunks[i]) = chunk_size
            /\ (i + 1 < Len(chunks)) => Shared(i) = overlap_size

\* C2 amended: with 0 <= O < C, no chunk is longer than chunkSize, a chunk is
\* shorter than chunkSize only if it ends at the end of the text (several
\* trailing chunks may), two consecutive chunks share min(O, len(T) - start
\* of the second) positions, and exactly O when the first has full length.
C2_ShortChunksReachTheEnd ==
    (ValidChunkCfg /\ pcChunk = "done") =>
        /\ \A i \in 1..Len(chunks) :
              /\ Len(chunks[i]) <= chunk_size
              /\ Len(chunks[i]) < chunk_size =>
                    starts[i] + Len(chunks[i]) = Len(file_text)
        /\ \A i \in 1..(Len(chunks) - 1) :
              /\ Shared(i) = Min(overlap_size, Len(file_text) - starts[i + 1])
              /\ Len(chunks[i]) = chunk_size => Shared(i) = overlap_size

C2_Witness ==
    /\ pcChunk = "done"
    /\ ValidChunkCfg
    /\ \E i \in 1..(Len(chunks) - 2) :
          /\ Len(chunks[i]) < chunk_size
          /\ Shared(i) < overlap_size

\* C3: when overlapSize >= chunkSize the call raises ValueError at its first
\* step: the file is never opened, no text is read and no chunk is computed.
C3_InvalidOverlapRaisesFirst ==
    (overlap_size >= chunk_size /\ pcChunk # "call") =>
        /\ pcChunk = "raised"
        /\ ~fileOpened
        /\ text = <<>>
        /\ chunks = <<>>

C3_Witness ==
    /\ pcChunk = "raised"
    /\ overlap_size = chunk_size
    /\ Len(file_text) > 0

\* C9: with 0 <= O < C the loop terminates, and it returns exactly
\* ceil(len(T) / (C - O)) chunks, none of them empty; the empty text gives
\* no chunk.
C9_TerminatesWithCeilCount ==
    /\ [](( ValidChunkCfg /\ pcChunk = "done") =>
            /\ Len(chunks) = CeilDiv(Len(file_text), Stride)
            /\ \A i \in 1..Len(chunks) : chunks[i] # <<>>
            /\ file_text = <<>> => chunks = <<>>)
    /\ (ValidChunkCfg ~> pcChunk = "done")

C9_Witness ==
    /\ pcChunk = "done"
    /\ ValidChunkCfg
    /\ Len(chunks) >= 2
    /\ Len(file_text) % Stride # 0
    /\ Len(chunks) = CeilDiv(Len(file_text), Stride)

-----------------------------------------------------------------------------
(* extract_video_id: the claims                                            *)

MinOf(S) == CHOOSE x \in S : \A y \in S : x <= y

\* The places <<position, alternative>> of url where an alternative of the
\* pattern stands, followed by at least one character that is no delimiter.
Occurrences(url) ==
    {o \in (1..Len(url)) \X (1..Len(Pattern)) : MatchAlt(url, o[1], o[2]).matched}

\* The same with every "." of the pattern read as a literal full stop: the
\* markers as they are written (v=, youtu.be/, /embed/, ...).
LiteralAtom(atom) == IF atom = Dot THEN "." ELSE atom

LiteralOccurrences(url) ==
    {o \in Occurrences(url) :
        \A k \in 1..Len(Pattern[o[2]]) :
            url[o[1] + k - 1] = LiteralAtom(Pattern[o[2]][k])}

\* C4 as stated: when the URL holds more than one recognized marker, the
\* identifier returned follows the marker that stands earliest in the
\* pattern's list of alternatives (at its first occurrence), wherever the
\* other markers stand in the string.
C4_EarliestAlternativeWins ==
    LET occ  == Occurrences(youtube_url)
        alts == {o[2] : o \in occ}
    IN  (pcExtract = "done" /\ Cardinality(alts) >= 2) =>
            LET k == MinOf(alts)
                p == MinOf({o[1] : o \in {x \in occ : x[2] = k}})
            IN  extractResult =
                    [kind |-> "return", value |-> MatchAlt(youtube_url, p, k).group1]

\* C4 amended: the identifier returned follows the marker that stands
\* leftmost in the string (among the marker occurrences followed by at least
\* one non-delimiter character); the order of the pattern's alternatives
\* decides only between alternatives that match at that same position.
C4_LeftmostMarkerWins ==
    LET occ == Occurrences(youtube_url)
    IN  (pcExtract = "done" /\ occ # {}) =>
            LET p == MinOf({o[1] : o \in occ})
                k == MinOf({o[2] : o \in {x \in occ : x[1] = p}})
            IN  extractResult =
                    [kind |-> "return", value |-> MatchAlt(youtube_url, p, k).group1]

\* Two markers, the leftmost one later in the pattern's list, and the
\* identifiers after them different: the one after the leftmost is returned.
C4_Witness ==
    LET occ == Occurrences(youtube_url)
    IN  /\ pcExtract = "done"
        /\ extractResult.kind = "return"
        /\ \E o1 \in occ, o2 \in occ :
              /\ o1[1] < o2[1]
              /\ o1[2] > o2[2]
              /\ o1[1] = MinOf({o[1] : o \in occ})
              /\ o2[2] = MinOf({o[2] : o \in occ})
              /\ extractResult.value = MatchAlt(youtube_url, o1[1], o1[2]).group1
              /\ extractResult.value # MatchAlt(youtube_url, o2[1], o2[2]).group1

\* C5: the call raises ValueError exactly when no recognized marker of the
\* URL is immediately followed by a character other than # & ? newline /
\* (so on every string without a marker); an identifier returned is
\* non-empty and holds none of those five characters.
C5_FailsExactlyWithoutMarker ==
    pcExtract = "done" =>
        /\ extractResult.kind = "ValueError" <=> LiteralOccurrences(youtube_url) = {}
        /\ extractResult.kind = "return" =>
              /\ extractResult.value # <<>>
              /\ \A i \in 1..Len(extractResult.value) :
                    extractResult.value[i] \notin Delimiters

-----------------------------------------------------------------------------
(* get_transcript: the claims                                              *)

\* The texts joined by single spaces.
RECURSIVE JoinBySpace(_)
JoinBySpace(texts) ==
    IF texts = <<>> THEN <<>>
    ELSE IF Len(texts) = 1 THEN texts[1]
    ELSE texts[1] \o <<" ">> \o JoinBySpace(Tail(texts))

\* v is s without its leading and trailing whitespace.
IsTrimOf(v, s) ==
    /\ v # <<>> => (v[1] \notin Whitespace /\ v[Len(v)] \notin Whitespace)
    /\ \E lead \in 0..Len(s) :
          /\ lead + Len(v) <= Len(s)
          /\ v = SubSeq(s, lead + 1, lead + Len(v))
          /\ \A i \in 1..lead : s[i] \in Whitespace
          /\ \A i \in (lead + Len(v) + 1)..Len(s) : s[i] \in Whitespace

ReturnsNone == transcriptResult.kind = "return" /\ transcriptResult.none

ReturnsJoinedText ==
    /\ transcriptResult.kind = "return"
    /\ ~transcriptResult.none
    /\ IsTrimOf(transcriptResult.value, JoinBySpace(segments))

\* C6 as stated: when the service call raises, the method returns None,
\* raises nothing and leaves the output file alone; when the service call
\* succeeds, it returns the entries' texts joined by single spaces, trimmed.
C6_NoneOnlyWhenServiceRaises ==
    pcT = "done" =>
        /\ fetchRaised => (ReturnsNone /\ ~fileWritten)
        /\ ~fetchRaised => ReturnsJoinedText

\* C6 amended: when the service call raises, the method returns None, raises
\* nothing and leaves the output file alone; when the service call succeeds
\* and the write of the output file, if one is asked for, does not raise, it
\* returns the entries' texts joined by single spaces, trimmed, and the file
\* asked for holds that text; when that write raises, it returns None too.
C6_NoneOnServiceOrWriteFailure ==
    pcT = "done" =>
        /\ transcriptResult.kind = "return"
        /\ fetchRaised => (ReturnsNone /\ ~fileWritten)
        /\ (~fetchRaised /\ ~writeFailed) =>
              /\ ReturnsJoinedText
              /\ fileWritten <=> output_file # "None"
              /\ fileWritten => fileContent = transcriptResult.value
        /\ (~fetchRaised /\ writeFailed) => ReturnsNone

C6_Witness ==
    /\ pcT = "done"
    /\ fetchRaised
    /\ output_file # "None"
    /\ Len(segments) = 2
    /\ ReturnsNone
    /\ ~fileWritten

-----------------------------------------------------------------------------
(* fetch_video_snippet, download_thumbnail: the claims                     *)

ErrorStatus(r) == r.conn /\ r.status \in 400..599
SuccessStatus(r) == r.conn /\ r.status \in 200..299

\* The API answered with a JSON body that holds no item.
ZeroItems(r) == r.conn /\ r.json /\ (~r.hasItems \/ Len(r.items) = 0)

\* The API answered with a JSON body that holds at least one item.
SomeItems(r) == r.conn /\ r.json /\ r.hasItems /\ Len(r.items) >= 1

\* The first item's snippet carries a non-empty medium thumbnail URL.
HasMediumUrl(r) ==
    LET sn == r.items[1].snippet
    IN  /\ "thumbnails" \in DOMAIN sn
        /\ "medium" \in DOMAIN sn.thumbnails
        /\ "url" \in DOMAIN sn.thumbnails.medium
        /\ sn.thumbnails.medium.url # ""

\* C7 as stated: fetch_video_snippet raises ValueError (NotFound) whenever
\* the API returns zero items, whatever else the answer says; it raises
\* HTTPError whenever the status is not 2xx; and it returns the first item's
\* snippet only on a 2xx answer with at least one item.
C7_NotFoundWheneverZeroItems ==
    (op = "fetch_video_snippet" /\ pcM = "done") =>
        /\ ZeroItems(resp) => callResult = Raise("ValueError")
        /\ (resp.conn /\ ~SuccessStatus(resp)) => callResult = Raise("HTTPError")
        /\ callResult.kind = "return" =>
              /\ SuccessStatus(resp)
              /\ SomeItems(resp)
              /\ callResult.snippet = <<resp.items[1].snippet>>

\* C7 amended: fetch_video_snippet raises HTTPError whenever the status is
\* 4xx or 5xx, whatever items the answer holds (the status is checked
\* first); it raises ValueError (NotFound) whenever an answer whose status is
\* not 4xx or 5xx holds zero items; and it returns the first item's snippet
\* only on an answer whose status is not 4xx or 5xx with at least one item.
C7_StatusCheckedBeforeItems ==
    (op = "fetch_video_snippet" /\ pcM = "done") =>
        /\ metaRequests = 1
        /\ ErrorStatus(resp) => callResult = Raise("HTTPError")
        /\ (ZeroItems(resp) /\ ~ErrorStatus(resp)) => callResult = Raise("ValueError")
        /\ callResult.kind = "return" =>
              /\ resp.conn /\ ~ErrorStatus(resp)
              /\ SomeItems(resp)
              /\ callResult.snippet = <<resp.items[1].snippet>>
        /\ (SomeItems(resp) /\ ~ErrorStatus(resp)) => callResult.kind = "return"

\* An error answer without items, as an invalid credential gets: HTTPError.
C7_Witness ==
    /\ op = "fetch_video_snippet"
    /\ pcM = "done"
    /\ resp.status = 403
    /\ ZeroItems(resp)
    /\ callResult = Raise("HTTPError")

\* C8: once download_thumbnail holds a medium thumbnail URL, whatever raises
\* while the image is downloaded (a 4xx or 5xx answer included), decoded or
\* saved ends in the return of None, never in an exception; save_path is
\* returned exactly when the three steps went through, the file then saved.
C8_ImageFailuresReturnNone ==
    (op = "download_thumbnail" /\ ~Falsy(thumb_url)) =>
        /\ callResult.kind # "raise"
        /\ pcM = "done" =>
              /\ callResult.kind = "return"
              /\ imageFailure # "none" => callResult.value = "None"
              /\ imageFailure = "none" => (callResult.value = SavePath /\ imageSaved)
              /\ callResult.value = SavePath => imageFailure = "none"

C8_Witness ==
    /\ op = "download_thumbnail"
    /\ pcM = "done"
    /\ ~Falsy(thumb_url)
    /\ imageFailure = "decode"
    /\ imageRequests = 1
    /\ callResult = ReturnValue("None")

\* C10: download_thumbnail fetches the snippet before its try: when that
\* fetch raises HTTPError or ValueError (NotFound), the same error leaves
\* download_thumbnail and no image request is sent; when the fetch succeeds
\* and the snippet carries no medium thumbnail URL, None is returned after
\* exactly one metadata request and no image request.
C10_ResolveErrorsPropagate ==
    (op = "download_thumbnail" /\ pcM = "done") =>
        /\ ErrorStatus(resp) =>
              (callResult = Raise("HTTPError") /\ imageRequests = 0)
        /\ (ZeroItems(resp) /\ ~ErrorStatus(resp)) =>
              (callResult = Raise("ValueError") /\ imageRequests = 0)
        /\ (SomeItems(resp) /\ ~ErrorStatus(resp) /\ ~HasMediumUrl(resp)) =>
              /\ callResult = ReturnValue("None")
              /\ metaRequests = 1
              /\ imageRequests = 0

C10_Witness ==
    /\ op = "download_thumbnail"
    /\ pcM = "done"
    /\ SuccessStatus(resp) /\ ZeroItems(resp)
    /\ callResult = Raise("ValueError")
    /\ imageRequests = 0

=============================================================================
